---- MODULE Spec2Model ----
(***************************************************************************)
(* Reservation eligibility and collision engine of the buk reservation     *)
(* system: create_event (api/events.py), control_collision and             *)
(* check_collision_time (api/utils.py), post_event and its rule checks     *)
(* (services/event_services.py, services/utils.py).                        *)
(* The validation of Rules values (schemas/calendar.py) and confirm_event   *)
(* and cancel_event of EventService are modelled as well.                  *)
(*                                                                         *)
(* Time is counted in minutes. Naive datetimes are minutes on the local    *)
(* wall clock; aware datetimes (what the external calendar stores and      *)
(* returns) are minutes on the UTC axis.                                   *)
(***************************************************************************)
EXTENDS Integers, Sequences, FiniteSets, TLC

VARIABLES
    now,        \* dt.datetime.now(): the wall clock, naive local minutes
    touching,   \* whether events.list also returns events that only touch the window
    calendars,  \* calendar table: id -> Calendar row
    google,     \* events held by the external calendar
    db,         \* event table
    mails,      \* notifications sent
    next_id,    \* next identifier handed out by events.insert
    proc,       \* one record per create_event request in flight
    fn          \* inputs and results of the rule functions applied on their own

vars == <<now, touching, calendars, google, db, mails, next_id, proc, fn>>

----------------------------------------------------------------------------
\* Bounds of the model.

\* time points are GridBase + s * SlotMinutes, s in 0..MaxSlot, on day 0..MaxDay
MaxSlot == 2
SlotMinutes == 30
GridBase == 1290
MaxDay == 1
\* the clock advances at most this many slots
MaxNow == 1
\* largest max_people of a calendar
MaxPeople == 2
\* events already in the external calendar when collision detection is exercised
MaxExisting == 2
\* largest values of the Rules fields
MaxHours == 2
MaxAdvHours == 1
MaxAdvSlots == 1
\* calls of control_collision on one calendar object
MaxCalls == 2

----------------------------------------------------------------------------
\* Program constants.

MinutesPerHour == 60
MinutesPerDay == 1440
\* 08:00:00 and 22:00:00 as minutes of the day
StartResTime == 480
EndResTime == 1320
\* utc offset of Europe/Prague, and of the zone the server process runs in
PragueUtcOffset == 60
SystemUtcOffset == 60

\* the create_event requests in flight
Procs == {1, 2}
CalendarIds == {"cal_a", "cal_b"}
ServiceAlias == "game"
Tiers == {"club_member_rules", "active_member_rules", "manager_rules"}

Abs(x) == IF x < 0 THEN -x ELSE x

Slot(d, s) == d * MinutesPerDay + GridBase + s * SlotMinutes
NearTimes == {Slot(0, s) : s \in 0..MaxSlot}
FarTimes == {Slot(d, s) : d \in 0..MaxDay, s \in 0..MaxSlot}

----------------------------------------------------------------------------
\* Time zone conversions.

\* prague.localize(naive): the instant of a naive Prague wall-clock time
localize(naive) == naive - PragueUtcOffset

\* astimezone on a server that runs in UTC
astimezone_Utc(naive) == naive

\* naive.astimezone(...): a naive datetime is taken to be in the system zone
astimezone(naive) == naive - SystemUtcOffset

\* dt.datetime.fromisoformat of a dateTime string returned by the calendar
fromisoformat(instant) == instant

----------------------------------------------------------------------------
\* The external calendar.

\* events.list(calendarId, timeMin, timeMax): events ending after timeMin and
\* starting before timeMax; whether the bounds themselves count is the
\* service's choice (touching).
Listed(ev, calendar_id, time_min, time_max) ==
    /\ ev.cal = calendar_id
    /\ IF touching
       THEN ev.end >= time_min /\ ev.start <= time_max
       ELSE ev.end > time_min /\ ev.start < time_max

Before(e1, e2) == e1.start < e2.start \/ (e1.start = e2.start /\ e1.id < e2.id)

\* orderBy='startTime'
RECURSIVE OrderByStart(_)
OrderByStart(S) ==
    IF S = {} THEN <<>>
    ELSE LET first == CHOOSE e \in S : \A o \in S \ {e} : Before(e, o)
         IN <<first>> \o OrderByStart(S \ {first})

get_events(start_time, end_time, calendar_id) ==
    OrderByStart({ev \in google :
        Listed(ev, calendar_id, localize(start_time), localize(end_time))})

----------------------------------------------------------------------------
\* Collision detection.

BackToBack(item, start_datetime, end_datetime) ==
    \/ fromisoformat(item.end) = astimezone(start_datetime)
    \/ fromisoformat(item.start) = astimezone(end_datetime)

\* check_collision_time letting two gathered events through to the adjacency test
check_collision_time_MoreThanTwo(check_collision, start_datetime, end_datetime, calendar) ==
    IF /\ ~calendar.collision_with_itself
       /\ Len(get_events(start_datetime, end_datetime, calendar.id)) > calendar.max_people
    THEN FALSE
    ELSE IF Len(check_collision) = 0 THEN TRUE
    ELSE IF Len(check_collision) > 2 THEN FALSE
    ELSE BackToBack(check_collision[1], start_datetime, end_datetime)

\* TRUE means the slot is free
check_collision_time(check_collision, start_datetime, end_datetime, calendar) ==
    IF /\ ~calendar.collision_with_itself
       /\ Len(get_events(start_datetime, end_datetime, calendar.id)) > calendar.max_people
    THEN FALSE
    ELSE IF Len(check_collision) = 0 THEN TRUE
    ELSE IF Len(check_collision) > 1 THEN FALSE
    ELSE BackToBack(check_collision[1], start_datetime, end_datetime)

\* collisions = calendar.collision_with_calendar; collisions.append(calendar.id):
\* the list of the calendar object itself grows by the calendar's own id
AppendOwnId(calendar) ==
    [calendar EXCEPT !.collision_with_calendar = Append(@, calendar.id)]

RECURSIVE GatherEvents(_, _, _)
GatherEvents(collisions, start_time, end_time) ==
    IF collisions = <<>> THEN <<>>
    ELSE get_events(start_time, end_time, Head(collisions))
         \o GatherEvents(Tail(collisions), start_time, end_time)

\* the list check_collision built by control_collision
CollisionList(calendar, event_input) ==
    LET collisions == AppendOwnId(calendar).collision_with_calendar
    IN  IF Len(collisions) > 0
        THEN GatherEvents(collisions, event_input.start_datetime, event_input.end_datetime)
        ELSE <<>>

control_collision(event_input, calendar) ==
    check_collision_time(CollisionList(calendar, event_input),
                         event_input.start_datetime,
                         event_input.end_datetime,
                         AppendOwnId(calendar))

----------------------------------------------------------------------------
\* Rule checks of post_event.

\* the value None in the place of a calendar
NoCalendar == [id |-> "no_calendar"]

\* the reservation service table; every calendar of the model belongs to rs_game
ReservationServices ==
    [rs \in {"rs_game"} |-> [id |-> rs, alias |-> ServiceAlias, name |-> "Game room"]]

service_availability_check(services, service_alias) == service_alias \in services

\* first_standard_check without the comparison of end_time with start_time
first_standard_check_NoEndCheck(services, reservation_service, start_time, end_time) ==
    IF ~service_availability_check(services, reservation_service.alias)
    THEN "no_service"
    ELSE IF start_time < now THEN "before_present"
    ELSE "Access"

first_standard_check(services, reservation_service, start_time, end_time) ==
    IF ~service_availability_check(services, reservation_service.alias)
    THEN "no_service"
    ELSE IF start_time < now THEN "before_present"
    ELSE IF end_time < start_time THEN "end_before_start"
    ELSE "Access"

\* dif_days_res refusing a reservation of exactly max_reservation_hours
dif_days_res_AtLeast(start_datetime, end_datetime, user_rules) ==
    LET time_difference == Abs(end_datetime - start_datetime)
    IN  ~(time_difference >= user_rules.max_reservation_hours * MinutesPerHour)

\* FALSE when the reservation lasts longer than max_reservation_hours
dif_days_res(start_datetime, end_datetime, user_rules) ==
    LET time_difference == Abs(end_datetime - start_datetime)
    IN  ~(time_difference > user_rules.max_reservation_hours * MinutesPerHour)

control_res_in_advance_or_prior(start_time, user_rules, in_advance) ==
    LET time_difference == Abs(start_time - now)
    IN  IF in_advance
        THEN ~(time_difference < user_rules.in_advance_minutes
                                 + user_rules.in_advance_hours * MinutesPerHour)
        ELSE ~(time_difference > user_rules.in_prior_days * MinutesPerDay)

\* reservation_in_advance testing the prior days before the advance notice
reservation_in_advance_PriorFirst(start_time, user_rules) ==
    IF ~control_res_in_advance_or_prior(start_time, user_rules, FALSE)
    THEN "in_prior"
    ELSE IF ~control_res_in_advance_or_prior(start_time, user_rules, TRUE)
    THEN "in_advance"
    ELSE "Access"

reservation_in_advance(start_time, user_rules) ==
    IF ~control_res_in_advance_or_prior(start_time, user_rules, TRUE)
    THEN "in_advance"
    ELSE IF ~control_res_in_advance_or_prior(start_time, user_rules, FALSE)
    THEN "in_prior"
    ELSE "Access"

\* __choose_user_rules looking at the manager role before the membership
choose_user_rules_RoleFirst(user, calendar) ==
    LET reservation_service == ReservationServices[calendar.reservation_service_id]
    IN  IF reservation_service.alias \in user.roles THEN calendar.manager_rules
        ELSE IF ~user.active_member THEN calendar.club_member_rules
        ELSE calendar.active_member_rules

choose_user_rules(user, calendar) ==
    LET reservation_service == ReservationServices[calendar.reservation_service_id]
    IN  IF ~user.active_member THEN calendar.club_member_rules
        ELSE IF reservation_service.alias \in user.roles THEN calendar.manager_rules
        ELSE calendar.active_member_rules

\* the checks of post_event with the duration tested before the guest count
control_conditions_and_permissions_DurationFirst(user, services, event_input, calendar) ==
    LET reservation_service == ReservationServices[calendar.reservation_service_id]
        standard_message == first_standard_check(services, reservation_service,
                                                 event_input.start_datetime,
                                                 event_input.end_datetime)
        user_rules == choose_user_rules(user, calendar)
    IN  IF standard_message # "Access" THEN standard_message
        ELSE IF ~dif_days_res(event_input.start_datetime,
                              event_input.end_datetime, user_rules)
        THEN "different_day"
        ELSE IF /\ ~calendar.more_than_max_people_with_permission
                /\ event_input.guests > calendar.max_people
        THEN "too_many_people"
        ELSE reservation_in_advance(event_input.start_datetime, user_rules)

control_conditions_and_permissions(user, services, event_input, calendar) ==
    LET reservation_service == ReservationServices[calendar.reservation_service_id]
        standard_message == first_standard_check(services, reservation_service,
                                                 event_input.start_datetime,
                                                 event_input.end_datetime)
        user_rules == choose_user_rules(user, calendar)
    IN  IF standard_message # "Access" THEN standard_message
        ELSE IF /\ ~calendar.more_than_max_people_with_permission
                /\ event_input.guests > calendar.max_people
        THEN "too_many_people"
        ELSE IF ~dif_days_res(event_input.start_datetime,
                              event_input.end_datetime, user_rules)
        THEN "different_day"
        ELSE reservation_in_advance(event_input.start_datetime, user_rules)

\* the body of the calendar event
ready_event(calendar, event_input, user) ==
    [summary |-> calendar.reservation_type,
     start |-> localize(event_input.start_datetime),
     end |-> localize(event_input.end_datetime)]

\* a message, or the event body when every check passes
post_event(event_input, services, user, calendar) ==
    IF calendar.id = NoCalendar.id
    THEN [message |-> "no_calendar"]
    ELSE LET message == control_conditions_and_permissions(user, services,
                                                           event_input, calendar)
         IN  IF message # "Access"
             THEN [message |-> message]
             ELSE ready_event(calendar, event_input, user)

IsMessage(event_body) == DOMAIN event_body = {"message"}

----------------------------------------------------------------------------
\* Night time.

\* check_night_reservation letting every user book at night
check_night_reservation_Everyone(user) == TRUE

\* TRUE when the user may book at night
check_night_reservation(user) == user.active_member

TimeOfDay(naive) == naive % MinutesPerDay

\* control_available_reservation_time counting an end at 22:00 as night
control_available_reservation_time_EndInclusive(start_datetime, end_datetime) ==
    LET start_time == TimeOfDay(start_datetime)
        end_time == TimeOfDay(end_datetime)
    IN  ~(\/ start_time < StartResTime
          \/ end_time < StartResTime
          \/ end_time >= EndResTime)

\* FALSE when the reservation touches the night
control_available_reservation_time(start_datetime, end_datetime) ==
    LET start_time == TimeOfDay(start_datetime)
        end_time == TimeOfDay(end_datetime)
    IN  ~(\/ start_time < StartResTime
          \/ end_time < StartResTime
          \/ end_time > EndResTime)

----------------------------------------------------------------------------
\* Data of the model.

Rules(night, hours, adv_hours, adv_minutes, prior_days) ==
    [night_time |-> night,
     reservation_without_permission |-> TRUE,
     max_reservation_hours |-> hours,
     in_advance_hours |-> adv_hours,
     in_advance_minutes |-> adv_minutes,
     in_prior_days |-> prior_days]

\* what the construction of a Rules value raises on a field that fails Field(ge=0)
ValidationError == [error |-> "ValidationError"]

\* the construction of a Rules value that does not validate in_prior_days
Rules_init_PriorUnchecked(night, hours, adv_hours, adv_minutes, prior_days) ==
    IF hours >= 0 /\ adv_hours >= 0 /\ adv_minutes >= 0
    THEN Rules(night, hours, adv_hours, adv_minutes, prior_days)
    ELSE ValidationError

\* Rules(...): the construction of a Rules value with its validation
Rules_init(night, hours, adv_hours, adv_minutes, prior_days) ==
    IF hours >= 0 /\ adv_hours >= 0 /\ adv_minutes >= 0 /\ prior_days >= 0
    THEN Rules(night, hours, adv_hours, adv_minutes, prior_days)
    ELSE ValidationError

\* values given for a numeric field of Rules
FieldValues == -1..MaxHours

RuleSets ==
    {Rules(FALSE, h, ah, am * SlotMinutes, pd) :
        h \in 0..MaxHours, ah \in 0..MaxAdvHours, am \in 0..MaxAdvSlots, pd \in 0..MaxDay}

ClubRules == Rules(FALSE, 1, 0, SlotMinutes, 1)
ActiveRules == Rules(TRUE, 2, 0, 0, 1)
ManagerRules == Rules(TRUE, 0, 0, 0, 0)
\* rules of a calendar that lets club members book at night and active
\* members not
NightClubRules == Rules(TRUE, 1, 0, SlotMinutes, 1)
DayActiveRules == Rules(FALSE, 2, 0, 0, 1)

ReservationTypeOf(calendar_id) == IF calendar_id = "cal_a" THEN "type_a" ELSE "type_b"

Calendar(id, itself, with_calendar, people, more, club, active, manager) ==
    [id |-> id,
     reservation_type |-> ReservationTypeOf(id),
     max_people |-> people,
     more_than_max_people_with_permission |-> more,
     collision_with_itself |-> itself,
     collision_with_calendar |-> with_calendar,
     club_member_rules |-> club,
     active_member_rules |-> active,
     manager_rules |-> manager,
     reservation_service_id |-> "rs_game"]

User(id, active, roles, services) ==
    [id |-> id, active_member |-> active, roles |-> roles, services |-> services]

ActiveMember == User(2, TRUE, {}, {ServiceAlias})

\* a club member, an active member, a manager of the service, an active
\* member without the service, and a club member with the manager role
Users ==
    {User(1, FALSE, {}, {ServiceAlias}),
     ActiveMember,
     User(3, TRUE, {ServiceAlias}, {ServiceAlias}),
     User(4, TRUE, {}, {}),
     User(5, FALSE, {ServiceAlias}, {ServiceAlias})}

EventCreate(type, start, end, guests) ==
    [reservation_type |-> type, start_datetime |-> start,
     end_datetime |-> end, guests |-> guests]

Requests ==
    {EventCreate(ReservationTypeOf(c), s, e, g) :
        c \in CalendarIds, s \in NearTimes, e \in NearTimes, g \in {1, MaxPeople + 1}}

\* the first request ranges over every user and request; the request that
\* runs beside it is an active member's, for one guest
Rivals == {ActiveMember}
UsersOf(p) == IF p = 1 THEN Users ELSE Rivals
RequestsOf(p) == IF p = 1 THEN Requests ELSE {r \in Requests : r.guests = 1}

\* requests for a reservation type that no calendar has
UnknownRequests == {EventCreate("type_x", Slot(0, 1), Slot(0, 2), 1)}

get_by_reservation_type(type) ==
    IF \E c \in DOMAIN calendars : calendars[c].reservation_type = type
    THEN calendars[CHOOSE c \in DOMAIN calendars : calendars[c].reservation_type = type]
    ELSE NoCalendar

None == "none"

Idle ==
    [pc |-> "idle", user |-> User(0, FALSE, {}, {}),
     event_create |-> EventCreate(None, 0, 0, 0),
     calendar |-> NoCalendar,
     check_collision |-> <<>>, available |-> FALSE, message |-> None,
     checked_at |-> 0, event_state |-> None, google_id |-> 0, outcome |-> None]

----------------------------------------------------------------------------
\* create_event.

\* create_event calling post_event before control_collision
Collide_RulesFirst(p, user, event_create) ==
    /\ proc[p].pc = "idle"
    /\ LET calendar == get_by_reservation_type(event_create.reservation_type)
           available == control_collision(event_create, calendar)
           event_body == post_event(event_create, user.services, user, calendar)
       IN  proc' = [proc EXCEPT ![p] =
               [@ EXCEPT !.pc = IF available /\ ~IsMessage(event_body)
                                THEN "checked" ELSE "done",
                         !.user = user,
                         !.event_create = event_create,
                         !.calendar = AppendOwnId(calendar),
                         !.check_collision = CollisionList(calendar, event_create),
                         !.available = available,
                         !.outcome = IF IsMessage(event_body) THEN "Rejected"
                                     ELSE IF available THEN None ELSE "AlreadyBooked"]]
    /\ UNCHANGED <<now, touching, calendars, google, db, mails, next_id, fn>>

\* the request arrives, the calendar is read, and control_collision runs
Collide(p, user, event_create) ==
    /\ proc[p].pc = "idle"
    /\ get_by_reservation_type(event_create.reservation_type).id # NoCalendar.id
    /\ LET calendar == get_by_reservation_type(event_create.reservation_type)
           available == control_collision(event_create, calendar)
       IN  proc' = [proc EXCEPT ![p] =
               [@ EXCEPT !.pc = IF available THEN "checked" ELSE "done",
                         !.user = user,
                         !.event_create = event_create,
                         !.calendar = AppendOwnId(calendar),
                         !.check_collision = CollisionList(calendar, event_create),
                         !.available = available,
                         !.outcome = IF available THEN None ELSE "AlreadyBooked"]]
    /\ UNCHANGED <<now, touching, calendars, google, db, mails, next_id, fn>>

\* no calendar has the reservation type: EntityNotFoundException
CalendarNotFound(p, user, event_create) ==
    /\ proc[p].pc = "idle"
    /\ get_by_reservation_type(event_create.reservation_type).id = NoCalendar.id
    /\ proc' = [proc EXCEPT ![p] =
           [@ EXCEPT !.pc = "done",
                     !.user = user,
                     !.event_create = event_create,
                     !.outcome = "NotFound"]]
    /\ UNCHANGED <<now, touching, calendars, google, db, mails, next_id, fn>>

\* the failure of events.list taken for an empty list of events
CollideFails_AsEmpty(p) ==
    /\ proc[p].pc = "idle"
    /\ proc' = [proc EXCEPT ![p] =
           [@ EXCEPT !.pc = "checked", !.available = TRUE, !.outcome = "Error"]]
    /\ UNCHANGED <<now, touching, calendars, google, db, mails, next_id, fn>>

\* events.list raises: the exception leaves create_event
CollideFails(p) ==
    /\ proc[p].pc = "idle"
    /\ proc' = [proc EXCEPT ![p] = [@ EXCEPT !.pc = "done", !.outcome = "Error"]]
    /\ UNCHANGED <<now, touching, calendars, google, db, mails, next_id, fn>>

\* create_event without the branch for more guests than max_people
StateOnInsert_NoGuestBranch(user, event_create, calendar) ==
    IF /\ ~check_night_reservation(user)
       /\ ~control_available_reservation_time(event_create.start_datetime,
                                              event_create.end_datetime)
    THEN "not_approved"
    ELSE "confirmed"

\* the state the event is created in once post_event has given an event body
StateOnInsert(user, event_create, calendar) ==
    IF event_create.guests > calendar.max_people THEN "not_approved"
    ELSE IF /\ ~check_night_reservation(user)
            /\ ~control_available_reservation_time(event_create.start_datetime,
                                                   event_create.end_datetime)
    THEN "not_approved"
    ELSE "confirmed"

OutcomeOnInsert(user, event_create, calendar) ==
    IF event_create.guests > calendar.max_people THEN "FlaggedOverCapacity"
    ELSE IF /\ ~check_night_reservation(user)
            /\ ~control_available_reservation_time(event_create.start_datetime,
                                                   event_create.end_datetime)
    THEN "FlaggedNightTime"
    ELSE "Confirmed"

\* create_event calling events.insert before it looks at what post_event gave
PostEvent_InsertBeforeRules(p) ==
    /\ proc[p].pc = "checked"
    /\ LET r == proc[p]
           event_body == post_event(r.event_create, r.user.services, r.user, r.calendar)
       IN  /\ google' = google \cup
                   {[id |-> next_id, cal |-> r.calendar.id,
                     start |-> localize(r.event_create.start_datetime),
                     end |-> localize(r.event_create.end_datetime)]}
           /\ next_id' = next_id + 1
           /\ IF IsMessage(event_body)
              THEN proc' = [proc EXCEPT ![p] =
                       [@ EXCEPT !.pc = "done",
                                 !.message = event_body.message,
                                 !.checked_at = now,
                                 !.outcome = "Rejected"]]
              ELSE proc' = [proc EXCEPT ![p] =
                       [@ EXCEPT !.pc = "inserted",
                                 !.message = "Access",
                                 !.checked_at = now,
                                 !.google_id = next_id,
                                 !.event_state = StateOnInsert(r.user, r.event_create,
                                                               r.calendar),
                                 !.outcome = OutcomeOnInsert(r.user, r.event_create,
                                                             r.calendar)]]
    /\ UNCHANGED <<now, touching, calendars, db, mails, fn>>

\* post_event, and on an event body events.insert
PostEvent(p) ==
    /\ proc[p].pc = "checked"
    /\ LET r == proc[p]
           event_body == post_event(r.event_create, r.user.services, r.user, r.calendar)
       IN  IF IsMessage(event_body)
           THEN /\ proc' = [proc EXCEPT ![p] =
                       [@ EXCEPT !.pc = "done",
                                 !.message = event_body.message,
                                 !.checked_at = now,
                                 !.outcome = "Rejected"]]
                /\ UNCHANGED <<google, next_id>>
           ELSE /\ google' = google \cup
                       {[id |-> next_id, cal |-> r.calendar.id,
                         start |-> event_body.start, end |-> event_body.end]}
                /\ next_id' = next_id + 1
                /\ proc' = [proc EXCEPT ![p] =
                       [@ EXCEPT !.pc = "inserted",
                                 !.message = "Access",
                                 !.checked_at = now,
                                 !.google_id = next_id,
                                 !.event_state = StateOnInsert(r.user, r.event_create,
                                                               r.calendar),
                                 !.outcome = OutcomeOnInsert(r.user, r.event_create,
                                                             r.calendar)]]
    /\ UNCHANGED <<now, touching, calendars, db, mails, fn>>

\* EventService.create_event writes the row; the night-time and the
\* confirmation branch then send the notification
CreateEventRow(p) ==
    /\ proc[p].pc = "inserted"
    /\ LET r == proc[p]
       IN  /\ db' = db \cup
                   {[id |-> r.google_id,
                     start_datetime |-> r.event_create.start_datetime,
                     end_datetime |-> r.event_create.end_datetime,
                     guests |-> r.event_create.guests,
                     event_state |-> r.event_state,
                     user_id |-> r.user.id,
                     calendar_id |-> r.calendar.id]}
           /\ mails' = IF r.outcome = "FlaggedOverCapacity" THEN mails
                       ELSE mails \cup {[event |-> r.google_id,
                                         template |-> IF r.outcome = "Confirmed"
                                                      THEN "confirm_reservation"
                                                      ELSE "not_approve_night_time_reservation"]}
    /\ proc' = [proc EXCEPT ![p] = [@ EXCEPT !.pc = "done"]]
    /\ UNCHANGED <<now, touching, calendars, google, next_id, fn>>

\* the wall clock moves on
Tick ==
    /\ now < Slot(0, MaxNow)
    /\ now' = now + SlotMinutes
    /\ UNCHANGED <<touching, calendars, google, db, mails, next_id, proc, fn>>

NoFn == [op |-> None]

Init ==
    /\ now = Slot(0, 0)
    /\ touching \in BOOLEAN
    /\ calendars = [c \in CalendarIds |->
           IF c = "cal_a"
           THEN Calendar(c, TRUE, <<"cal_b">>, MaxPeople, TRUE,
                         ClubRules, ActiveRules, ManagerRules)
           ELSE Calendar(c, FALSE, <<>>, 1, FALSE,
                         NightClubRules, DayActiveRules, ManagerRules)]
    /\ google = {}
    /\ db = {}
    /\ mails = {}
    /\ next_id = 1
    /\ proc = [p \in Procs |-> Idle]
    /\ fn = NoFn

Next ==
    \/ \E p \in Procs : \E user \in UsersOf(p), event_create \in RequestsOf(p) :
           Collide(p, user, event_create)
    \/ \E p \in Procs : \E user \in Rivals, event_create \in UnknownRequests :
           CalendarNotFound(p, user, event_create)
    \/ \E p \in Procs : CollideFails(p)
    \/ \E p \in Procs : PostEvent(p)
    \/ \E p \in Procs : CreateEventRow(p)
    \/ Tick

Spec == Init /\ [][Next]_vars

----------------------------------------------------------------------------
\* Properties of create_event (specification Spec).

\* outcomes of a request that left create_event by an exception before the
\* collision check gave a result
Raised == {"Error", "NotFound"}
Started(p) == proc[p].pc # "idle" /\ proc[p].outcome \notin Raised
Created(p) == proc[p].google_id # 0
Entitled(p) == ServiceAlias \in proc[p].user.services
Inverted(p) == proc[p].event_create.end_datetime < proc[p].event_create.start_datetime
OverCapacity(p) == proc[p].event_create.guests > proc[p].calendar.max_people

\* two requested intervals share more than an end point
TrulyOverlap(a, b) ==
    /\ a.start_datetime <= a.end_datetime
    /\ b.start_datetime <= b.end_datetime
    /\ a.start_datetime < b.end_datetime
    /\ b.start_datetime < a.end_datetime

\* C1: of two create_event requests on the same calendar whose intervals
\* truly overlap, with no earlier booking in the window, at most one ends
\* with a booking created.
C1_AtMostOneOverlappingBooking ==
    \A p, q \in Procs :
        (/\ p # q
         /\ Started(p) /\ Started(q)
         /\ proc[p].calendar.id = proc[q].calendar.id
         /\ TrulyOverlap(proc[p].event_create, proc[q].event_create))
        => ~(Created(p) /\ Created(q))

\* C5: a conflict reported by the collision detector ends the request as
\* AlreadyBooked before any other check has run, and every event in the
\* external calendar and every event row belongs to a request whose
\* collision check found the slot free.
C5_CollisionCheckFirst ==
    /\ \A p \in Procs :
           (Started(p) /\ ~proc[p].available)
           => /\ proc[p].pc = "done"
              /\ proc[p].outcome = "AlreadyBooked"
              /\ proc[p].message = None
              /\ ~Created(p)
    /\ \A ev \in google :
           \E p \in Procs : Started(p) /\ proc[p].available /\ proc[p].google_id = ev.id
    /\ \A row \in db :
           \E p \in Procs : Started(p) /\ proc[p].available /\ proc[p].google_id = row.id

\* a conflict was reported for a request that post_event would have refused
C5_Witness ==
    \E p \in Procs :
        /\ proc[p].outcome = "AlreadyBooked"
        /\ (~Entitled(p) \/ proc[p].event_create.start_datetime < now)

InvalidInterval == {"before_present", "end_before_start"}

ReachesCapacityCheck(p) ==
    /\ proc[p].available
    /\ Entitled(p)
    /\ proc[p].event_create.start_datetime >= proc[p].checked_at
    /\ ~Inverted(p)

\* C8: a request for more guests than max_people is never created in state
\* confirmed. When over-capacity is not allowed nothing is created, and the
\* message is the over-capacity one once the request gets as far as that
\* check; when it is allowed and every check passes the booking is created
\* in state not_approved.
C8_OverCapacityNeverConfirmed ==
    \A p \in Procs :
        (Started(p) /\ OverCapacity(p) /\ proc[p].pc \in {"inserted", "done"})
        => /\ proc[p].event_state # "confirmed"
           /\ proc[p].outcome # "Confirmed"
           /\ \A row \in db : row.id = proc[p].google_id /\ Created(p)
                  => row.event_state = "not_approved"
           /\ ~proc[p].calendar.more_than_max_people_with_permission
                  => /\ ~Created(p)
                     /\ proc[p].outcome \in {"Rejected", "AlreadyBooked"}
                     /\ ReachesCapacityCheck(p) => proc[p].message = "too_many_people"
           /\ (proc[p].calendar.more_than_max_people_with_permission
                  /\ proc[p].message = "Access")
                  => /\ Created(p)
                     /\ proc[p].event_state = "not_approved"
                     /\ proc[p].outcome = "FlaggedOverCapacity"
                     /\ proc[p].pc = "done"
                            => \E row \in db : /\ row.id = proc[p].google_id
                                               /\ row.guests = proc[p].event_create.guests

C8_Witness ==
    \E p \in Procs :
        /\ Started(p) /\ proc[p].pc = "done" /\ OverCapacity(p)
        /\ proc[p].outcome = "FlaggedOverCapacity"
        /\ check_night_reservation(proc[p].user)
        /\ \E row \in db : row.id = proc[p].google_id /\ row.event_state = "not_approved"

\* the requested interval leaves the day window: the time of day of its start
\* is before 08:00, or that of its end is before 08:00 or after 22:00
OutsideDayWindow(p) ==
    LET start_of_day == proc[p].event_create.start_datetime % MinutesPerDay
        end_of_day == proc[p].event_create.end_datetime % MinutesPerDay
    IN  \/ start_of_day < 8 * MinutesPerHour
        \/ end_of_day < 8 * MinutesPerHour
        \/ end_of_day > 22 * MinutesPerHour

\* post_event gave an event body and the guests fit the calendar
PassesOtherChecks(p) ==
    /\ Started(p)
    /\ proc[p].pc \in {"inserted", "done"}
    /\ proc[p].message = "Access"
    /\ ~OverCapacity(p)

NightMailOf(p) ==
    {m \in mails : /\ m.event = proc[p].google_id
                   /\ m.template = "not_approve_night_time_reservation"}

\* C11: an active member's request never gets the FlaggedNightTime outcome;
\* a request of a requester who is not an active member that passes every
\* other check and leaves the day window is created in state not_approved,
\* never confirmed, and once it has finished the row is written and the
\* night-time notification is sent.
C11_NightOnlyForNonActive ==
    \A p \in Procs :
        /\ (Started(p) /\ proc[p].user.active_member)
           => /\ proc[p].outcome # "FlaggedNightTime"
              /\ NightMailOf(p) = {}
        /\ (PassesOtherChecks(p) /\ ~proc[p].user.active_member /\ OutsideDayWindow(p))
           => /\ Created(p)
              /\ proc[p].outcome = "FlaggedNightTime"
              /\ proc[p].event_state = "not_approved"
              /\ proc[p].pc = "done"
                     => /\ \E row \in db : /\ row.id = proc[p].google_id
                                           /\ row.event_state = "not_approved"
                        /\ NightMailOf(p) # {}

\* a club member's booking 22:00-22:30 is finished as not_approved, with mail
C11_Witness ==
    \E p \in Procs :
        /\ PassesOtherChecks(p) /\ proc[p].pc = "done"
        /\ ~proc[p].user.active_member /\ OutsideDayWindow(p)
        /\ proc[p].outcome = "FlaggedNightTime"
        /\ NightMailOf(p) # {}

\* the rules that apply to the requester of p, by the tier of the requester
ApplicableRules(p) ==
    IF ~proc[p].user.active_member THEN proc[p].calendar.club_member_rules
    ELSE IF ServiceAlias \in proc[p].user.roles THEN proc[p].calendar.manager_rules
    ELSE proc[p].calendar.active_member_rules

\* C12: when the rules that apply to the requester have night_time the
\* request is not flagged for night time, and when they have not a booking
\* that leaves the day window is not confirmed.
C12_NightTimeFlagDecides ==
    \A p \in Procs :
        (Started(p) /\ proc[p].pc \in {"inserted", "done"} /\ Created(p))
        => /\ ApplicableRules(p).night_time => proc[p].outcome # "FlaggedNightTime"
           /\ (~ApplicableRules(p).night_time /\ OutsideDayWindow(p))
                  => /\ proc[p].outcome # "Confirmed"
                     /\ proc[p].event_state # "confirmed"

\* the request of p as post_event saw it: the requester holds the service, no
\* conflict was reported, the interval is in order and not in the past, the
\* guests fit, duration, advance notice and prior days are within the rules
\* of the requester's tier, and the night-time flag does not apply
WithinAllRules(p) ==
    LET start == proc[p].event_create.start_datetime
        end == proc[p].event_create.end_datetime
        rules == ApplicableRules(p)
    IN  /\ Started(p)
        /\ proc[p].pc \in {"inserted", "done"}
        /\ proc[p].available
        /\ Entitled(p)
        /\ start >= proc[p].checked_at
        /\ end >= start
        /\ ~OverCapacity(p)
        /\ end - start <= rules.max_reservation_hours * MinutesPerHour
        /\ start - proc[p].checked_at >=
               rules.in_advance_hours * MinutesPerHour + rules.in_advance_minutes
        /\ start - proc[p].checked_at <= rules.in_prior_days * MinutesPerDay
        /\ (proc[p].user.active_member \/ ~OutsideDayWindow(p))

EventsOf(p) == {ev \in google : ev.id = proc[p].google_id}
RowsOf(p) == {row \in db : row.id = proc[p].google_id}
ConfirmMailOf(p) ==
    {m \in mails : m.event = proc[p].google_id /\ m.template = "confirm_reservation"}

\* C14: a request that is within all rules ends Confirmed: one event of the
\* requested interval is in the external calendar for it, and once it has
\* finished one row in state confirmed is written for it and the
\* confirmation mail is sent; every event and every row belongs to one
\* request.
C14_EligibleRequestConfirmed ==
    /\ \A p \in Procs :
           WithinAllRules(p)
           => /\ proc[p].outcome = "Confirmed"
              /\ Created(p)
              /\ Cardinality(EventsOf(p)) = 1
              /\ \A ev \in EventsOf(p) :
                     /\ ev.cal = proc[p].calendar.id
                     /\ ev.start = localize(proc[p].event_create.start_datetime)
                     /\ ev.end = localize(proc[p].event_create.end_datetime)
              /\ proc[p].pc = "done"
                     => /\ Cardinality(RowsOf(p)) = 1
                        /\ \A row \in RowsOf(p) :
                               /\ row.event_state = "confirmed"
                               /\ row.user_id = proc[p].user.id
                               /\ row.calendar_id = proc[p].calendar.id
                        /\ ConfirmMailOf(p) # {}
    /\ Cardinality(google) = Cardinality({p \in Procs : Created(p)})
    /\ Cardinality(db) = Cardinality({p \in Procs : Created(p) /\ proc[p].pc = "done"})

\* a club member's booking that ends at 22:00 sharp is finished as confirmed
C14_Witness ==
    \E p \in Procs :
        /\ WithinAllRules(p) /\ proc[p].pc = "done"
        /\ ~proc[p].user.active_member
        /\ proc[p].event_create.end_datetime % MinutesPerDay = EndResTime
        /\ proc[p].outcome = "Confirmed"
        /\ ConfirmMailOf(p) # {}

\* the messages of a hard rejection
HardRejections ==
    {"no_service", "before_present", "end_before_start", "too_many_people",
     "different_day", "in_advance", "in_prior", "no_calendar"}

HardRejected(p) ==
    \/ proc[p].outcome = "Rejected" /\ proc[p].message \in HardRejections
    \/ proc[p].outcome = "NotFound"

\* C15: the step in which create_event ends in a hard rejection leaves the
\* events of the external calendar, the event rows and the notifications as
\* they were, and no event, row or notification belongs to the request.
C15_RejectionCreatesNothing ==
    [][\A p \in Procs :
           (proc[p].pc # "done" /\ proc'[p].pc = "done" /\ HardRejected(p)')
           => /\ google' = google
              /\ db' = db
              /\ mails' = mails
              /\ next_id' = next_id
              /\ proc'[p].google_id = 0]_vars

\* a request is refused for its guests while another request's booking and
\* row exist
C15_Witness ==
    \E p \in Procs :
        /\ proc[p].pc = "done" /\ HardRejected(p)
        /\ proc[p].message = "too_many_people"
        /\ db # {} /\ google # {} /\ mails # {}

\* C16: when fetching the events of a calendar fails the request ends there
\* with an outcome of its own: the external calendar, the rows and the
\* notifications stay as they are in that step, the slot is not taken to be
\* free, nothing is created for the request, and the request takes no
\* further step.
C16_FetchFailureIsNotEmpty ==
    [][\A p \in Procs :
           /\ (proc[p].outcome # "Error" /\ proc'[p].outcome = "Error")
              => /\ google' = google /\ db' = db /\ mails' = mails
                 /\ proc'[p].pc = "done"
                 /\ ~proc'[p].available
                 /\ proc'[p].google_id = 0
           /\ proc[p].outcome = "Error"
              => /\ proc'[p] = proc[p]
                 /\ proc[p].outcome \notin {"AlreadyBooked", "Confirmed"}]_vars

\* one request ended with the failure while the other was booked and confirmed
C16_Witness ==
    \E p, q \in Procs :
        /\ proc[p].outcome = "Error" /\ proc[p].pc = "done"
        /\ proc[q].outcome = "Confirmed" /\ proc[q].pc = "done"
        /\ Cardinality(google) = 1 /\ Cardinality(db) = 1

----------------------------------------------------------------------------
\* Collision detection on a calendar that already holds events
\* (specification SpecDetect): the external calendar starts with up to
\* MaxExisting events, and one request runs control_collision.

Intervals == {<<s, e>> \in NearTimes \X NearTimes : s <= e}

ExistingEvents(n, place, span) ==
    {[id |-> i, cal |-> place[i],
      start |-> localize(span[i][1]), end |-> localize(span[i][2])] : i \in 1..n}

DetectRequests == {r \in Requests : r.guests = 1}

InitDetect ==
    /\ now = Slot(0, 0)
    /\ touching \in BOOLEAN
    /\ \E itself \in BOOLEAN, people \in 1..MaxPeople, with \in {<<>>, <<"cal_b">>} :
           calendars = [c \in CalendarIds |->
               IF c = "cal_a"
               THEN Calendar(c, itself, with, people, TRUE,
                             ClubRules, ActiveRules, ManagerRules)
               ELSE Calendar(c, FALSE, <<"cal_a">>, 1, FALSE,
                             ClubRules, ActiveRules, ManagerRules)]
    /\ \E n \in 0..MaxExisting :
           \E place \in [1..n -> CalendarIds], span \in [1..n -> Intervals] :
               /\ google = ExistingEvents(n, place, span)
               /\ next_id = n + 1
    /\ db = {}
    /\ mails = {}
    /\ proc = [p \in Procs |-> Idle]
    /\ fn = NoFn

\* control_collision is called once more with the calendar object and the
\* request of the call before
ControlCollisionAgain(p) ==
    /\ proc[p].pc # "idle"
    /\ proc[p].outcome # "Error"
    /\ Len(proc[p].calendar.collision_with_calendar)
           < Len(calendars[proc[p].calendar.id].collision_with_calendar) + MaxCalls
    /\ LET calendar == proc[p].calendar
           available == control_collision(proc[p].event_create, calendar)
       IN  proc' = [proc EXCEPT ![p] =
               [@ EXCEPT !.pc = IF available THEN "checked" ELSE "done",
                         !.calendar = AppendOwnId(calendar),
                         !.check_collision = CollisionList(calendar, proc[p].event_create),
                         !.available = available,
                         !.outcome = IF available THEN None ELSE "AlreadyBooked"]]
    /\ UNCHANGED <<now, touching, calendars, google, db, mails, next_id, fn>>

NextDetect ==
    \/ \E event_create \in DetectRequests :
           Collide(1, ActiveMember, event_create)
    \/ CollideFails(1)
    \/ ControlCollisionAgain(1)

SpecDetect == InitDetect /\ [][NextDetect]_vars

\* the instants a request asks for
ReqStart(p) == localize(proc[p].event_create.start_datetime)
ReqEnd(p) == localize(proc[p].event_create.end_datetime)

\* an existing event ends where the request starts, or starts where it ends
Adjacent(ev, p) == ev.end = ReqStart(p) \/ ev.start = ReqEnd(p)

C3_ManyConflictNoneFree ==
    \A p \in Procs :
        Started(p)
        => /\ Len(proc[p].check_collision) >= 2 => ~proc[p].available
           /\ Len(proc[p].check_collision) = 0 => proc[p].available

\* two gathered events, both only touching the request, the later one first
C3_Witness ==
    \E p \in Procs :
        /\ Started(p) /\ Len(proc[p].check_collision) = 2
        /\ \A i \in 1..2 : Adjacent(proc[p].check_collision[i], p)
        /\ proc[p].check_collision[2].start < proc[p].check_collision[1].start
        /\ ~proc[p].available

\* an event of the request's own calendar that shares more than an end point
\* with the requested interval
OwnOverlaps(p) ==
    {ev \in google : /\ ev.cal = proc[p].calendar.id
                     /\ ReqStart(p) < ReqEnd(p)
                     /\ ev.start < ReqEnd(p) /\ ReqStart(p) < ev.end}

\* C4: on a calendar with collision_with_itself a request that overlaps only
\* bookings of that calendar is admitted while the bookings, the new one
\* counted, number at most max_people; without collision_with_itself any
\* truly overlapping booking of the calendar blocks the request.
C4_SelfCollisionUpToMaxPeople ==
    \A p \in Procs :
        Started(p)
        => /\ (/\ proc[p].calendar.collision_with_itself
               /\ \A i \in 1..Len(proc[p].check_collision) :
                      proc[p].check_collision[i] \in OwnOverlaps(p)
               /\ Cardinality(OwnOverlaps(p)) + 1 <= proc[p].calendar.max_people)
              => proc[p].available
           /\ (~proc[p].calendar.collision_with_itself /\ OwnOverlaps(p) # {})
              => ~proc[p].available

Elements(list) == {list[i] : i \in 1..Len(list)}

\* C17: control_collision leaves the calendar it is given as it was: after
\* any number of calls the list of colliding calendars of the calendar object
\* has the elements of the stored calendar, and the last call gave the result
\* that a call with the stored calendar gives.
C17_ControlCollisionLeavesCalendar ==
    \A p \in Procs :
        Started(p)
        => /\ Elements(proc[p].calendar.collision_with_calendar)
                  = Elements(calendars[proc[p].calendar.id].collision_with_calendar)
           /\ proc[p].available
                  = control_collision(proc[p].event_create, calendars[proc[p].calendar.id])

----------------------------------------------------------------------------
\* The rule functions applied on their own (specification SpecRules): the
\* inputs are drawn at the start, and each function is applied to them once.

FarRequests ==
    {EventCreate("type_a", s, e, g) :
        s \in FarTimes, e \in FarTimes, g \in {1, MaxPeople + 1}}

RuledCalendars ==
    {Calendar("cal_a", FALSE, <<>>, MaxPeople, more, r, r, r) :
        more \in BOOLEAN, r \in RuleSets}

\* calendars whose three tiers have different rules
TieredCalendars ==
    {Calendar("cal_a", FALSE, <<>>, MaxPeople, TRUE,
              ClubRules, ActiveRules, ManagerRules),
     Calendar("cal_b", FALSE, <<>>, 1, FALSE,
              NightClubRules, DayActiveRules, ManagerRules)}

InitRules ==
    /\ now \in {Slot(0, s) : s \in 0..MaxNow}
    /\ touching = FALSE
    /\ calendars = [c \in CalendarIds |->
           Calendar(c, FALSE, <<>>, MaxPeople, TRUE, ClubRules, ActiveRules, ManagerRules)]
    /\ google = {}
    /\ db = {}
    /\ mails = {}
    /\ next_id = 1
    /\ proc = [p \in Procs |-> Idle]
    /\ \E event_input \in FarRequests, user \in Users,
          calendar \in RuledCalendars \cup {NoCalendar} :
           fn = [op |-> "input", event_input |-> event_input, user |-> user,
                 calendar |-> calendar, message |-> None, fits |-> FALSE,
                 rules |-> ClubRules]

\* the rules the functions are given: those of the drawn calendar
FnRules == IF fn.calendar.id = NoCalendar.id THEN ClubRules
           ELSE fn.calendar.club_member_rules

ApplyPostEvent ==
    /\ fn.op = "input"
    /\ LET event_body == post_event(fn.event_input, fn.user.services, fn.user, fn.calendar)
       IN  fn' = [fn EXCEPT !.op = "post_event",
                            !.message = IF IsMessage(event_body)
                                        THEN event_body.message ELSE "event_body"]
    /\ UNCHANGED <<now, touching, calendars, google, db, mails, next_id, proc>>

ApplyDifDaysRes ==
    /\ fn.op = "input"
    /\ fn' = [fn EXCEPT !.op = "dif_days_res",
                        !.fits = dif_days_res(fn.event_input.start_datetime,
                                              fn.event_input.end_datetime, FnRules)]
    /\ UNCHANGED <<now, touching, calendars, google, db, mails, next_id, proc>>

ApplyReservationInAdvance ==
    /\ fn.op = "input"
    /\ fn' = [fn EXCEPT !.op = "reservation_in_advance",
                        !.message = reservation_in_advance(
                                        fn.event_input.start_datetime, FnRules)]
    /\ UNCHANGED <<now, touching, calendars, google, db, mails, next_id, proc>>

ApplyChooseUserRules ==
    /\ fn.op = "input"
    /\ \E calendar \in TieredCalendars :
           fn' = [fn EXCEPT !.op = "choose_user_rules",
                            !.calendar = calendar,
                            !.rules = choose_user_rules(fn.user, calendar)]
    /\ UNCHANGED <<now, touching, calendars, google, db, mails, next_id, proc>>

ApplyControlAvailableReservationTime ==
    /\ fn.op = "input"
    /\ fn' = [fn EXCEPT !.op = "control_available_reservation_time",
                        !.fits = control_available_reservation_time(
                                     fn.event_input.start_datetime,
                                     fn.event_input.end_datetime)]
    /\ UNCHANGED <<now, touching, calendars, google, db, mails, next_id, proc>>

NextRules ==
    \/ ApplyPostEvent
    \/ ApplyDifDaysRes
    \/ ApplyReservationInAdvance
    \/ ApplyChooseUserRules
    \/ ApplyControlAvailableReservationTime

SpecRules == InitRules /\ [][NextRules]_vars

\* the conditions post_event refuses a request for, each on its own
FailsEntitlement == ServiceAlias \notin fn.user.services
FailsNotBeforeNow == fn.event_input.start_datetime < now
FailsEndAfterStart == fn.event_input.end_datetime < fn.event_input.start_datetime
FailsCapacity ==
    /\ ~fn.calendar.more_than_max_people_with_permission
    /\ fn.event_input.guests > fn.calendar.max_people
Duration ==
    IF fn.event_input.end_datetime >= fn.event_input.start_datetime
    THEN fn.event_input.end_datetime - fn.event_input.start_datetime
    ELSE fn.event_input.start_datetime - fn.event_input.end_datetime
Distance ==
    IF fn.event_input.start_datetime >= now
    THEN fn.event_input.start_datetime - now
    ELSE now - fn.event_input.start_datetime
FailsDuration == Duration > FnRules.max_reservation_hours * MinutesPerHour
FailsAdvance ==
    Distance < FnRules.in_advance_hours * MinutesPerHour + FnRules.in_advance_minutes
FailsPrior == Distance > FnRules.in_prior_days * MinutesPerDay

\* the checks in the order of the claim, with the message of each
OrderedChecks ==
    << <<FailsEntitlement, "no_service">>,
       <<FailsNotBeforeNow, "before_present">>,
       <<FailsEndAfterStart, "end_before_start">>,
       <<FailsCapacity, "too_many_people">>,
       <<FailsDuration, "different_day">>,
       <<FailsAdvance, "in_advance">>,
       <<FailsPrior, "in_prior">> >>

EarliestFailure ==
    LET failing == {i \in DOMAIN OrderedChecks : OrderedChecks[i][1]}
    IN  IF failing = {} THEN "event_body"
        ELSE OrderedChecks[CHOOSE i \in failing : \A j \in failing : i <= j][2]

\* C7: post_event returns the message of the earliest failing check in the
\* order entitlement, start not before now, end not before start, guests,
\* duration, advance notice, prior days, and an event body only when all pass.
C7_FirstFailingCheckDecides ==
    (fn.op = "post_event" /\ fn.calendar.id # NoCalendar.id)
    => fn.message = EarliestFailure

\* guests, duration and advance notice all fail: the guest message is given
C7_Witness ==
    /\ fn.op = "post_event" /\ fn.calendar.id # NoCalendar.id
    /\ ~FailsEntitlement /\ ~FailsNotBeforeNow /\ ~FailsEndAfterStart
    /\ FailsCapacity /\ FailsDuration /\ FailsAdvance
    /\ fn.message = "too_many_people"

C10_AdvanceThenPrior ==
    fn.op = "reservation_in_advance"
    => fn.message = IF FailsAdvance THEN "in_advance"
                    ELSE IF FailsPrior THEN "in_prior"
                    ELSE "Access"

\* a start in the past that fails both checks gets the advance-notice message
C10_Witness ==
    /\ fn.op = "reservation_in_advance"
    /\ fn.event_input.start_datetime < now
    /\ FailsAdvance /\ FailsPrior
    /\ fn.message = "in_advance"

\* C13: the rules chosen depend on the requester and the calendar alone: a
\* requester who is not an active member gets the club member rules, also
\* with the manager role of the service; an active member with the role of
\* the service gets the manager rules; any other active member gets the
\* active member rules.
C13_TierByMembershipThenRole ==
    fn.op = "choose_user_rules"
    => /\ ~fn.user.active_member => fn.rules = fn.calendar.club_member_rules
       /\ (fn.user.active_member /\ ServiceAlias \in fn.user.roles)
              => fn.rules = fn.calendar.manager_rules
       /\ (fn.user.active_member /\ ServiceAlias \notin fn.user.roles)
              => fn.rules = fn.calendar.active_member_rules

\* a club member with the manager role gets the club member rules, which are
\* not the manager rules
C13_Witness ==
    /\ fn.op = "choose_user_rules"
    /\ ~fn.user.active_member /\ ServiceAlias \in fn.user.roles
    /\ fn.rules = fn.calendar.club_member_rules
    /\ fn.calendar.club_member_rules # fn.calendar.manager_rules

----------------------------------------------------------------------------
\* Construction of Rules values (specification SpecSchema): field values are
\* given, and the Rules value is constructed from them.

GivenFields ==
    [night_time : BOOLEAN,
     max_reservation_hours : FieldValues,
     in_advance_hours : FieldValues,
     in_advance_minutes : FieldValues,
     in_prior_days : FieldValues]

InitSchema ==
    /\ now = Slot(0, 0)
    /\ touching = FALSE
    /\ calendars = [c \in CalendarIds |->
           Calendar(c, FALSE, <<>>, MaxPeople, TRUE, ClubRules, ActiveRules, ManagerRules)]
    /\ google = {}
    /\ db = {}
    /\ mails = {}
    /\ next_id = 1
    /\ proc = [p \in Procs |-> Idle]
    /\ \E given \in GivenFields : fn = [op |-> "given", given |-> given]

ApplyRulesInit ==
    /\ fn.op = "given"
    /\ fn' = [op |-> "Rules",
              given |-> fn.given,
              result |-> Rules_init(fn.given.night_time,
                                    fn.given.max_reservation_hours,
                                    fn.given.in_advance_hours,
                                    fn.given.in_advance_minutes,
                                    fn.given.in_prior_days)]
    /\ UNCHANGED <<now, touching, calendars, google, db, mails, next_id, proc>>

NextSchema == ApplyRulesInit

SpecSchema == InitSchema /\ [][NextSchema]_vars

NumericFields ==
    {"max_reservation_hours", "in_advance_hours", "in_advance_minutes", "in_prior_days"}

\* C18: constructing a Rules value with a negative numeric field fails with a
\* validation error, and a Rules value that was constructed has the field
\* values it was given, all four numeric ones at least 0.
C18_NegativeFieldFails ==
    fn.op = "Rules"
    => /\ (\E f \in NumericFields : fn.given[f] < 0) => fn.result = ValidationError
       /\ fn.result # ValidationError
              => /\ \A f \in NumericFields : fn.result[f] >= 0 /\ fn.result[f] = fn.given[f]
                 /\ fn.result.night_time = fn.given.night_time
       /\ (\A f \in NumericFields : fn.given[f] >= 0) => fn.result # ValidationError

\* max_reservation_hours = -1 with the other fields valid is refused
C18_Witness ==
    /\ fn.op = "Rules"
    /\ fn.given.max_reservation_hours = -1
    /\ fn.given.in_advance_hours = 1
    /\ fn.given.in_advance_minutes = 0
    /\ fn.given.in_prior_days = 0
    /\ fn.result = ValidationError

----------------------------------------------------------------------------
\* The life of an event row (specification SpecEvents): the event table holds
\* events in any state, and the calls of EventService that change the state
\* of an event run side by side. Each call is two steps, as the awaits of
\* the method split it: it reads the event and decides, then it writes.

EventStates == {"not_approved", "update_requested", "confirmed", "canceled"}

EventIds == {1, 2}
\* an id that no event has
MissingId == 3

EventRow(id, start, state, user_id) ==
    [id |-> id,
     start_datetime |-> start,
     end_datetime |-> start + SlotMinutes,
     guests |-> 1,
     event_state |-> state,
     user_id |-> user_id,
     calendar_id |-> "cal_a"]

\* a manager of the service of the calendars, and a manager of another service
Manager == User(3, TRUE, {ServiceAlias}, {ServiceAlias})
OtherManager == User(6, TRUE, {"grill"}, {ServiceAlias})
Callers == {ActiveMember, Manager, OtherManager}

\* the value None in the place of an event
NoEvent == [id |-> 0]

\* self.get(uuid)
get(uuid) ==
    IF \E row \in db : row.id = uuid
    THEN CHOOSE row \in db : row.id = uuid
    ELSE NoEvent

get_reservation_service_of_this_event(event) ==
    ReservationServices[calendars[event.calendar_id].reservation_service_id]

\* the row of uuid gets the state, every other row stays
WithState(uuid, state) ==
    {IF row.id = uuid THEN [row EXCEPT !.event_state = state] ELSE row : row \in db}

Call(op, uuid, user, pc, result) ==
    [pc |-> pc, op |-> op, uuid |-> uuid, user |-> user, result |-> result]

\* the external calendar's event of a row, as events.insert stored it
GoogleEvent(row) ==
    [id |-> row.id, cal |-> row.calendar_id,
     start |-> localize(row.start_datetime), end |-> localize(row.end_datetime)]

\* isoparse(dateTime).replace(tzinfo=None): the wall-clock time the calendar,
\* which is kept in Prague time, writes for an instant
isoparse_replace(instant) == instant + PragueUtcOffset

\* the rows created so far; the external calendar holds the events of those
\* that were not canceled
InitEvents ==
    /\ now = Slot(0, 0)
    /\ touching = FALSE
    /\ calendars = [c \in CalendarIds |->
           Calendar(c, FALSE, <<>>, MaxPeople, TRUE, ClubRules, ActiveRules, ManagerRules)]
    /\ \E state \in [EventIds -> EventStates],
          start \in [EventIds -> {Slot(0, 0), Slot(0, MaxNow)}] :
           db = {EventRow(i, start[i], state[i], i) : i \in EventIds}
    /\ google = {GoogleEvent(row) : row \in {r \in db : r.event_state # "canceled"}}
    /\ mails = {}
    /\ next_id = 1
    /\ proc = [p \in Procs |-> Idle]
    /\ fn = NoFn

\* confirm_event confirming an event in whatever state
ConfirmEventRead_AnyState(p, uuid, user) ==
    /\ proc[p].pc = "idle"
    /\ LET event == get(uuid)
       IN  proc' = [proc EXCEPT ![p] =
               IF event = NoEvent
               THEN Call("confirm_event", uuid, user, "done", "None")
               ELSE IF get_reservation_service_of_this_event(event).alias \notin user.roles
               THEN Call("confirm_event", uuid, user, "done", "PermissionDeniedException")
               ELSE Call("confirm_event", uuid, user, "confirm_write", None)]
    /\ UNCHANGED <<now, touching, calendars, google, db, mails, next_id, fn>>

\* confirm_event up to the call of crud.confirm_event
ConfirmEventRead(p, uuid, user) ==
    /\ proc[p].pc = "idle"
    /\ LET event == get(uuid)
       IN  proc' = [proc EXCEPT ![p] =
               IF event = NoEvent
               THEN Call("confirm_event", uuid, user, "done", "None")
               ELSE IF event.event_state # "not_approved"
               THEN Call("confirm_event", uuid, user, "done", "BaseAppException")
               ELSE IF get_reservation_service_of_this_event(event).alias \notin user.roles
               THEN Call("confirm_event", uuid, user, "done", "PermissionDeniedException")
               ELSE Call("confirm_event", uuid, user, "confirm_write", None)]
    /\ UNCHANGED <<now, touching, calendars, google, db, mails, next_id, fn>>

\* crud.confirm_event
ConfirmEventWrite(p) ==
    /\ proc[p].pc = "confirm_write"
    /\ IF get(proc[p].uuid) = NoEvent
       THEN /\ db' = db
            /\ proc' = [proc EXCEPT ![p] = [@ EXCEPT !.pc = "done", !.result = "None"]]
       ELSE /\ db' = WithState(proc[p].uuid, "confirmed")
            /\ proc' = [proc EXCEPT ![p] = [@ EXCEPT !.pc = "done", !.result = "confirmed"]]
    /\ UNCHANGED <<now, touching, calendars, google, mails, next_id, fn>>


\* cancel_event canceling an event that has started
CancelEventRead_NoStartCheck(p, uuid, user) ==
    /\ proc[p].pc = "idle"
    /\ LET event == get(uuid)
       IN  proc' = [proc EXCEPT ![p] =
               IF event = NoEvent
               THEN Call("cancel_event", uuid, user, "done", "None")
               ELSE IF event.event_state = "canceled"
               THEN Call("cancel_event", uuid, user, "done", "BaseAppException")
               ELSE IF /\ event.user_id # user.id
                       /\ get_reservation_service_of_this_event(event).alias \notin user.roles
               THEN Call("cancel_event", uuid, user, "done", "PermissionDeniedException")
               ELSE Call("cancel_event", uuid, user, "cancel_write", None)]
    /\ UNCHANGED <<now, touching, calendars, google, db, mails, next_id, fn>>

\* cancel_event up to the call of self.update
CancelEventRead(p, uuid, user) ==
    /\ proc[p].pc = "idle"
    /\ LET event == get(uuid)
       IN  proc' = [proc EXCEPT ![p] =
               IF event = NoEvent
               THEN Call("cancel_event", uuid, user, "done", "None")
               ELSE IF event.event_state = "canceled"
               THEN Call("cancel_event", uuid, user, "done", "BaseAppException")
               ELSE IF event.start_datetime < now
               THEN Call("cancel_event", uuid, user, "done", "BaseAppException")
               ELSE IF /\ event.user_id # user.id
                       /\ get_reservation_service_of_this_event(event).alias \notin user.roles
               THEN Call("cancel_event", uuid, user, "done", "PermissionDeniedException")
               ELSE Call("cancel_event", uuid, user, "cancel_write", None)]
    /\ UNCHANGED <<now, touching, calendars, google, db, mails, next_id, fn>>

\* self.update(uuid, EventUpdate(event_state=CANCELED)), after which the
\* handler deletes the event from the external calendar
CancelEventWrite(p) ==
    /\ proc[p].pc = "cancel_write"
    /\ IF get(proc[p].uuid) = NoEvent
       THEN /\ db' = db
            /\ google' = google
            /\ proc' = [proc EXCEPT ![p] = [@ EXCEPT !.pc = "done", !.result = "None"]]
       ELSE /\ db' = WithState(proc[p].uuid, "canceled")
            /\ google' = {ev \in google : ev.id # proc[p].uuid}
            /\ proc' = [proc EXCEPT ![p] = [@ EXCEPT !.pc = "done", !.result = "canceled"]]
    /\ UNCHANGED <<now, touching, calendars, mails, next_id, fn>>

\* the times a request_update_reservation_time call asks for
EventUpdateTime(start, end) == [start_datetime |-> start, end_datetime |-> end]
UpdateTimes == {EventUpdateTime(Slot(0, s), Slot(0, s) + SlotMinutes) : s \in {0, MaxNow}}

UpdateCall(uuid, user, event_update, pc, result) ==
    [pc |-> pc, op |-> "request_update_reservation_time", uuid |-> uuid,
     user |-> user, event_update |-> event_update, result |-> result]

\* the row of uuid gets the times and the state, every other row stays
WithTimesAndState(uuid, event_update, state) ==
    {IF row.id = uuid
     THEN [row EXCEPT !.start_datetime = event_update.start_datetime,
                      !.end_datetime = event_update.end_datetime,
                      !.event_state = state]
     ELSE row : row \in db}

\* request_update_reservation_time taking a second request for an event
\* that is in state update_requested
RequestUpdateRead_Again(p, uuid, user, event_update) ==
    /\ proc[p].pc = "idle"
    /\ LET event_to_update == get(uuid)
       IN  proc' = [proc EXCEPT ![p] =
               IF event_to_update = NoEvent
               THEN UpdateCall(uuid, user, event_update, "done", "None")
               ELSE IF event_to_update.start_datetime < now
               THEN UpdateCall(uuid, user, event_update, "done", "BaseAppException")
               ELSE IF event_to_update.event_state = "canceled"
               THEN UpdateCall(uuid, user, event_update, "done", "BaseAppException")
               ELSE UpdateCall(uuid, user, event_update, "update_write", None)]
    /\ UNCHANGED <<now, touching, calendars, google, db, mails, next_id, fn>>

\* request_update_reservation_time up to the call of self.update
RequestUpdateRead(p, uuid, user, event_update) ==
    /\ proc[p].pc = "idle"
    /\ LET event_to_update == get(uuid)
       IN  proc' = [proc EXCEPT ![p] =
               IF event_to_update = NoEvent
               THEN UpdateCall(uuid, user, event_update, "done", "None")
               ELSE IF event_to_update.start_datetime < now
               THEN UpdateCall(uuid, user, event_update, "done", "BaseAppException")
               ELSE IF event_to_update.event_state = "canceled"
               THEN UpdateCall(uuid, user, event_update, "done", "BaseAppException")
               ELSE IF event_to_update.event_state = "update_requested"
               THEN UpdateCall(uuid, user, event_update, "done", "BaseAppException")
               ELSE UpdateCall(uuid, user, event_update, "update_write", None)]
    /\ UNCHANGED <<now, touching, calendars, google, db, mails, next_id, fn>>

\* self.update(uuid, EventUpdate(start_datetime, end_datetime, UPDATE_REQUESTED))
RequestUpdateWrite(p) ==
    /\ proc[p].pc = "update_write"
    /\ IF get(proc[p].uuid) = NoEvent
       THEN /\ db' = db
            /\ proc' = [proc EXCEPT ![p] = [@ EXCEPT !.pc = "done", !.result = "None"]]
       ELSE /\ db' = WithTimesAndState(proc[p].uuid, proc[p].event_update,
                                       "update_requested")
            /\ proc' = [proc EXCEPT ![p] =
                   [@ EXCEPT !.pc = "done", !.result = "update_requested"]]
    /\ UNCHANGED <<now, touching, calendars, google, mails, next_id, fn>>

\* EventUpdate(event_state=CONFIRMED), to which a decline adds the times the
\* external calendar still holds
ApproveEventUpdate(approve, event_from_google_calendar) ==
    IF approve
    THEN [event_state |-> "confirmed"]
    ELSE [event_state |-> "confirmed",
          start_datetime |-> isoparse_replace(event_from_google_calendar.start),
          end_datetime |-> isoparse_replace(event_from_google_calendar.end)]

\* crud.update: the fields that were set in obj_in replace those of the row
update(uuid, obj_in) ==
    {IF row.id = uuid
     THEN [f \in DOMAIN row |-> IF f \in DOMAIN obj_in THEN obj_in[f] ELSE row[f]]
     ELSE row : row \in db}

ApproveCall(uuid, user, approve, event, event_update, pc, result) ==
    [pc |-> pc, op |-> "approve_update_reservation_time", uuid |-> uuid,
     user |-> user, approve |-> approve, event |-> event,
     event_update |-> event_update, result |-> result]

\* the handler approve_update_reservation_time up to the call of self.update:
\* it reads the event and the external calendar's event, and the service
\* checks the state and the caller's role
ApproveUpdateRead(p, uuid, user, approve) ==
    /\ proc[p].pc = "idle"
    /\ LET event == get(uuid)
           Failed(result) ==
               ApproveCall(uuid, user, approve, NoEvent, NoEvent, "done", result)
       IN  proc' = [proc EXCEPT ![p] =
               IF event = NoEvent
               THEN Failed("EntityNotFoundException")
               ELSE IF ~\E ev \in google : ev.id = uuid
               THEN Failed("BaseAppException")
               ELSE IF event.event_state = "canceled"
               THEN Failed("BaseAppException")
               ELSE IF get_reservation_service_of_this_event(event).alias \notin user.roles
               THEN Failed("PermissionDeniedException")
               ELSE ApproveCall(uuid, user, approve, event,
                                ApproveEventUpdate(approve,
                                    CHOOSE ev \in google : ev.id = uuid),
                                "approve_write", None)]
    /\ UNCHANGED <<now, touching, calendars, google, db, mails, next_id, fn>>

\* self.update(uuid, event_update); an approval then writes the event's times
\* to the external calendar
ApproveUpdateWrite(p) ==
    /\ proc[p].pc = "approve_write"
    /\ LET call == proc[p]
           held == \E ev \in google : ev.id = call.uuid
       IN  IF get(call.uuid) = NoEvent
           THEN /\ UNCHANGED <<db, google>>
                /\ proc' = [proc EXCEPT ![p] =
                       [@ EXCEPT !.pc = "done", !.result = "EntityNotFoundException"]]
           ELSE /\ db' = update(call.uuid, call.event_update)
                /\ google' = IF call.approve /\ held
                             THEN {IF ev.id = call.uuid
                                   THEN [ev EXCEPT
                                            !.start = localize(call.event.start_datetime),
                                            !.end = localize(call.event.end_datetime)]
                                   ELSE ev : ev \in google}
                             ELSE google
                /\ proc' = [proc EXCEPT ![p] =
                       [@ EXCEPT !.pc = "done",
                                 !.result = IF call.approve /\ ~held
                                            THEN "BaseAppException"
                                            ELSE "confirmed"]]
    /\ UNCHANGED <<now, touching, calendars, mails, next_id, fn>>

\* the call has returned or raised; the next call may come
Return(p) ==
    /\ proc[p].pc = "done"
    /\ proc' = [proc EXCEPT ![p] = Idle]
    /\ UNCHANGED <<now, touching, calendars, google, db, mails, next_id, fn>>

Uuids == EventIds \cup {MissingId}

\* the second request in flight is a manager's, for the first event
UuidsOf(p) == IF p = 1 THEN Uuids ELSE {1}
CallersOf(p) == IF p = 1 THEN Callers ELSE {Manager}

NextEvents ==
    \/ \E p \in Procs : \E uuid \in UuidsOf(p), user \in CallersOf(p) : ConfirmEventRead(p, uuid, user)
    \/ \E p \in Procs : ConfirmEventWrite(p)
    \/ \E p \in Procs : \E uuid \in UuidsOf(p), user \in CallersOf(p) : CancelEventRead(p, uuid, user)
    \/ \E p \in Procs : CancelEventWrite(p)
    \/ \E p \in Procs : \E uuid \in UuidsOf(p), user \in CallersOf(p), event_update \in UpdateTimes :
           RequestUpdateRead(p, uuid, user, event_update)
    \/ \E p \in Procs : RequestUpdateWrite(p)
    \/ \E p \in Procs : \E uuid \in UuidsOf(p), user \in CallersOf(p), approve \in BOOLEAN :
           ApproveUpdateRead(p, uuid, user, approve)
    \/ \E p \in Procs : ApproveUpdateWrite(p)
    \/ \E p \in Procs : Return(p)
    \/ Tick

SpecEvents == InitEvents /\ [][NextEvents]_vars

\* the rows of the event a call is about, and the rows of the other events
RowsWith(uuid) == {row \in db : row.id = uuid}
OtherRows(uuid) == {row \in db : row.id # uuid}

\* the call of p starts in this step
Begins(p, op) == proc[p].pc = "idle" /\ proc'[p].pc # "idle" /\ proc'[p].op = op

Raises == {"BaseAppException", "PermissionDeniedException"}

\* C19: confirm_event goes on to set the state confirmed if and only if the
\* event exists, is in state not_approved and the caller's roles contain the
\* alias of the event's reservation service; for an event in another state
\* or a caller without the role it raises and no row changes; when it goes
\* on, the row of the event, and no other, gets the state confirmed.
C19_ConfirmOnlyNotApprovedByManager ==
    [][\A p \in Procs :
           /\ Begins(p, "confirm_event")
              => LET call == proc'[p]
                     allowed == \E row \in RowsWith(call.uuid) :
                                    /\ row.event_state = "not_approved"
                                    /\ ServiceAlias \in call.user.roles
                 IN  /\ db' = db
                     /\ call.pc = "confirm_write" <=> allowed
                     /\ (RowsWith(call.uuid) # {} /\ ~allowed)
                            => call.pc = "done" /\ call.result \in Raises
                     /\ RowsWith(call.uuid) = {}
                            => call.pc = "done" /\ call.result = "None"
           /\ (proc[p].pc = "confirm_write" /\ proc'[p].pc = "done")
              => /\ proc'[p].result = "confirmed"
                 /\ \E row \in db' : row.id = proc[p].uuid
                 /\ \A row \in db' : row.id = proc[p].uuid => row.event_state = "confirmed"
                 /\ {row \in db' : row.id # proc[p].uuid} = OtherRows(proc[p].uuid)]_vars

\* a manager's confirm_event has confirmed an event
C19_Witness ==
    \E p \in Procs :
        /\ proc[p].pc = "done" /\ proc[p].op = "confirm_event"
        /\ proc[p].result = "confirmed"
        /\ ServiceAlias \in proc[p].user.roles
        /\ \E row \in RowsWith(proc[p].uuid) : row.event_state = "confirmed"

C21_RequestUpdateStoresTimes ==
    [][\A p \in Procs :
           /\ Begins(p, "request_update_reservation_time")
              => LET call == proc'[p]
                     allowed == \E row \in RowsWith(call.uuid) :
                                    /\ row.start_datetime >= now
                                    /\ row.event_state \in {"confirmed", "not_approved"}
                 IN  /\ db' = db
                     /\ call.pc = "update_write" <=> allowed
                     /\ (RowsWith(call.uuid) # {} /\ ~allowed)
                            => call.pc = "done" /\ call.result = "BaseAppException"
           /\ (proc[p].pc = "update_write" /\ proc'[p].pc = "done")
              => /\ proc'[p].result = "update_requested"
                 /\ \E row \in db' : row.id = proc[p].uuid
                 /\ \A row \in db' :
                        row.id = proc[p].uuid
                        => /\ row.event_state = "update_requested"
                           /\ row.start_datetime = proc[p].event_update.start_datetime
                           /\ row.end_datetime = proc[p].event_update.end_datetime
                 /\ {row \in db' : row.id # proc[p].uuid} = OtherRows(proc[p].uuid)]_vars

\* a request has moved an event to another time
C21_Witness ==
    \E p \in Procs :
        /\ proc[p].pc = "done" /\ proc[p].op = "request_update_reservation_time"
        /\ proc[p].result = "update_requested"
        /\ \E row \in RowsWith(proc[p].uuid) :
               /\ row.event_state = "update_requested"
               /\ row.start_datetime = proc[p].event_update.start_datetime
               /\ row.start_datetime = Slot(0, MaxNow)
               /\ now = Slot(0, 0)

\* C22: request_update_reservation_time called by a user who did not create
\* the event fails, and no row changes.
C22_OnlyCreatorRequestsUpdate ==
    [][\A p \in Procs :
           (/\ Begins(p, "request_update_reservation_time")
            /\ \E row \in RowsWith(proc'[p].uuid) : row.user_id # proc'[p].user.id)
           => /\ proc'[p].pc = "done"
              /\ proc'[p].result \in Raises
              /\ db' = db]_vars

\* two bookings that are not canceled hold the same calendar at the same time
Overlap(a, b) ==
    a.start_datetime < b.end_datetime /\ b.start_datetime < a.end_datetime
DoubleBooked ==
    \E a \in db, b \in db :
        /\ a.id # b.id
        /\ a.calendar_id = b.calendar_id
        /\ a.event_state # "canceled" /\ b.event_state # "canceled"
        /\ Overlap(a, b)

\* at most one call is in flight
Sequential == Cardinality({p \in Procs : proc[p].pc # "idle"}) <= 1

\* C24: as long as calls do not run concurrently, no step of request_update,
\* approve_update (approving or declining), cancel or approve_reservation
\* takes the bookings from a state without double booking to one where two
\* bookings that are not canceled overlap on one calendar.
C24_NoDoubleBookingBySequentialCalls ==
    [][(~DoubleBooked /\ Sequential /\ Sequential') => ~DoubleBooked']_vars

\* C25: an event in state canceled stays in state canceled in every step,
\* also when calls run concurrently.
C25_CanceledIsTerminal ==
    [][\A row \in db :
           row.event_state = "canceled"
           => \A after \in db' : after.id = row.id => after.event_state = "canceled"]_vars

\* C26: a step that takes an event from not_approved to confirmed is the
\* write of confirm_event, and approve_update_reservation_time goes on to its
\* write only for an event in state update_requested.
C26_ConfirmedOnlyThroughConfirmEvent ==
    [][/\ \A row \in db :
              (/\ row.event_state = "not_approved"
               /\ \E after \in db' : after.id = row.id /\ after.event_state = "confirmed")
              => \E p \in Procs : /\ proc[p].pc = "confirm_write"
                                   /\ proc[p].uuid = row.id
                                   /\ proc'[p].pc = "done"
       /\ \A p \in Procs :
              (Begins(p, "approve_update_reservation_time")
               /\ proc'[p].pc = "approve_write")
              => \E row \in RowsWith(proc'[p].uuid) :
                     row.event_state = "update_requested"]_vars

----------------------------------------------------------------------------
\* The access card system asks whether a user may open a device of a room.

\* the reservation services with their rooms and lockers
RoomServices ==
    [rs \in {"rs_game", "rs_grill"} |->
        [id |-> rs,
         room_id |-> IF rs = "rs_game" THEN 1 ELSE 3,
         lockers_id |-> IF rs = "rs_game" THEN {10} ELSE {40}]]

\* a mini service with a room of its own, and one that is kept in lockers
NoRoom == 0
MiniServices ==
    {[name |-> "console", room_id |-> 2, lockers_id |-> {20}],
     [name |-> "projector", room_id |-> NoRoom, lockers_id |-> {30}]}

NoService == [id |-> "none", room_id |-> NoRoom, lockers_id |-> {}]
NoMiniService == [name |-> "none", room_id |-> NoRoom, lockers_id |-> {}]

UserIds == {1, 2}
UnknownRoom == 9
ClubAccessSystemRequest(uid, room_id, device_id) ==
    [uid |-> uid, room_id |-> room_id, device_id |-> device_id]
AccessRequests ==
    {ClubAccessSystemRequest(uid, room_id, device_id) :
        uid \in UserIds \cup {MissingId},
        room_id \in {1, 2, 3, UnknownRoom},
        device_id \in {10, 20, 30, 40}}

reservation_service_get_by_room_id(room_id) ==
    IF \E rs \in DOMAIN RoomServices : RoomServices[rs].room_id = room_id
    THEN RoomServices[CHOOSE rs \in DOMAIN RoomServices : RoomServices[rs].room_id = room_id]
    ELSE NoService

mini_service_get_by_room_id(room_id) ==
    IF \E ms \in MiniServices : ms.room_id = room_id
    THEN CHOOSE ms \in MiniServices : ms.room_id = room_id
    ELSE NoMiniService

mini_service_get_by_name(name) == CHOOSE ms \in MiniServices : ms.name = name

\* the user's event that runs now; of several, the one that started last
get_current_event_for_user(user_id) ==
    LET current == {row \in db : /\ row.user_id = user_id
                                 /\ row.start_datetime <= now
                                 /\ row.end_datetime >= now}
    IN  IF current = {} THEN NoEvent
        ELSE CHOOSE row \in current :
                 \A other \in current : other.start_datetime <= row.start_datetime

\* the reservation service of the calendar of the event
room_service_of_this_event(event) ==
    RoomServices[calendars[event.calendar_id].reservation_service_id]

reservation_access_authorize(access_request) ==
    LET reservation_service == reservation_service_get_by_room_id(access_request.room_id)
        mini_service == mini_service_get_by_room_id(access_request.room_id)
        event == get_current_event_for_user(access_request.uid)
    IN  IF access_request.uid \notin UserIds
        THEN "PermissionDeniedException"
        ELSE IF reservation_service = NoService /\ mini_service = NoMiniService
        THEN "PermissionDeniedException"
        ELSE IF event = NoEvent
        THEN "PermissionDeniedException"
        ELSE IF /\ mini_service # NoMiniService
                /\ mini_service.name \in event.additional_services
                /\ access_request.device_id \in mini_service.lockers_id
        THEN "True"
        ELSE IF /\ reservation_service = room_service_of_this_event(event)
                /\ \/ access_request.device_id \in reservation_service.lockers_id
                   \/ \E name \in event.additional_services :
                          /\ mini_service_get_by_name(name).room_id = NoRoom
                          /\ access_request.device_id \in
                                 mini_service_get_by_name(name).lockers_id
        THEN "True"
        ELSE "PermissionDeniedException"

AccessRow(start, state, calendar_id, additional_services) ==
    [id |-> 1, start_datetime |-> start, end_datetime |-> start + SlotMinutes,
     guests |-> 1, event_state |-> state, user_id |-> 1, calendar_id |-> calendar_id,
     additional_services |-> additional_services]

\* user 1 has one event, now or later, in any state; user 2 has none
InitAccess ==
    /\ now = Slot(0, 0)
    /\ touching = FALSE
    /\ calendars = [c \in CalendarIds |->
           [Calendar(c, FALSE, <<>>, MaxPeople, TRUE, ClubRules, ActiveRules, ManagerRules)
               EXCEPT !.reservation_service_id =
                          IF c = "cal_a" THEN "rs_game" ELSE "rs_grill"]]
    /\ google = {}
    /\ \E start \in {Slot(0, 0), Slot(0, MaxSlot)}, state \in EventStates,
          calendar_id \in CalendarIds,
          additional_services \in {{}, {"console"}, {"projector"}} :
           db = {AccessRow(start, state, calendar_id, additional_services)}
    /\ mails = {}
    /\ next_id = 1
    /\ proc = [p \in Procs |-> Idle]
    /\ fn = NoFn

ReservationAccessAuthorize(access_request) ==
    /\ fn' = [op |-> "reservation_access_authorize",
              access_request |-> access_request,
              at |-> now,
              result |-> reservation_access_authorize(access_request)]
    /\ UNCHANGED <<now, touching, calendars, google, db, mails, next_id, proc>>

NextAccess ==
    \/ \E access_request \in AccessRequests : ReservationAccessAuthorize(access_request)
    \/ Tick

SpecAccess == InitAccess /\ [][NextAccess]_vars

\* the user has a reservation that gives the device of the room now
ValidReservation(access_request) ==
    \E event \in db :
        /\ event.user_id = access_request.uid
        /\ event.start_datetime <= now /\ now <= event.end_datetime
        /\ event.event_state = "confirmed"
        /\ \/ /\ reservation_service_get_by_room_id(access_request.room_id)
                     = room_service_of_this_event(event)
              /\ \/ access_request.device_id \in room_service_of_this_event(event).lockers_id
                 \/ \E ms \in MiniServices :
                        /\ ms.name \in event.additional_services
                        /\ ms.room_id = NoRoom
                        /\ access_request.device_id \in ms.lockers_id
           \/ \E ms \in MiniServices :
                  /\ ms.room_id = access_request.room_id
                  /\ ms.name \in event.additional_services
                  /\ access_request.device_id \in ms.lockers_id

\* C23: reservation_access_authorize returns True only if the user has, at
\* the time of the call, an event with start <= now <= end in state confirmed
\* that belongs to the reservation service or mini service of the requested
\* room, with the device among that service's lockers.
C23_AccessOnlyWithConfirmedReservation ==
    (fn.op = "reservation_access_authorize" /\ fn.at = now /\ fn.result = "True")
    => ValidReservation(fn.access_request)

----------------------------------------------------------------------------
\* The calendar table and its collision lists.

MaxCollisions == 2
TableIds == {"cal_a", "cal_b", "cal_c"}
MissingService == "rs_none"

Range(seq) == {seq[i] : i \in DOMAIN seq}

\* the lists a request can name: up to MaxCollisions ids
CollisionLists == UNION {[1..n -> TableIds] : n \in 0..MaxCollisions}

CalendarCreate(id, reservation_type, reservation_service_id, mini_services, collisions) ==
    [id |-> id, reservation_type |-> reservation_type,
     reservation_service_id |-> reservation_service_id,
     mini_services |-> mini_services,
     collision_with_calendar |-> collisions]

CalendarCreates ==
    {CalendarCreate(id, reservation_type, reservation_service_id, mini_services, collisions) :
        id \in TableIds,
        reservation_type \in {"type_a", "type_b"},
        reservation_service_id \in {"rs_game", MissingService},
        mini_services \in {<<"console">>, <<"unknown">>},
        collisions \in CollisionLists}

\* the row crud.create stores
CalendarRow(calendar_create) ==
    [id |-> calendar_create.id,
     reservation_type |-> calendar_create.reservation_type,
     reservation_service_id |-> calendar_create.reservation_service_id,
     mini_services |-> calendar_create.mini_services,
     collision_with_calendar |-> calendar_create.collision_with_calendar,
     deleted_at |-> FALSE]

\* self.get(id, include_removed): soft-deleted rows are seen only on request
Stored(table, id, include_removed) ==
    /\ id \in DOMAIN table
    /\ include_removed \/ ~table[id].deleted_at

\* get_by_reservation_type(reservation_type, True)
TypeTaken(table, reservation_type) ==
    \E id \in DOMAIN table : table[id].reservation_type = reservation_type

\* get_names_by_reservation_service_id
get_names_by_reservation_service_id(reservation_service_id) ==
    {ms.name : ms \in MiniServices}

\* every order in which a list can come out of a set
Orderings(S) ==
    {seq \in UNION {[1..n -> S] : n \in {Cardinality(S)}} : Range(seq) = S}

\* the collision list of an existing calendar with id put at its end
add_collision_Append(collision_with_calendar, id) ==
    {Append(collision_with_calendar, id)}

\* list(set(collision_with_calendar) | {id}): the order is that of the set
add_collision(collision_with_calendar, id) ==
    Orderings(Range(collision_with_calendar) \cup {id})

\* the loop of create_calendar over the collisions still to be handled; it
\* stops at the first calendar that does not exist, and what it has written
\* by then stays written
RECURSIVE UpdateCollisions(_, _, _)
UpdateCollisions(table, id, rest) ==
    IF rest = <<>>
    THEN {[calendars |-> table, ok |-> TRUE]}
    ELSE LET collision == Head(rest)
         IN  IF ~Stored(table, collision, FALSE)
             THEN {[calendars |-> table, ok |-> FALSE]}
             ELSE UNION {UpdateCollisions(
                             [table EXCEPT ![collision].collision_with_calendar = list],
                             id, Tail(rest)) :
                         list \in add_collision(table[collision].collision_with_calendar, id)}

\* a call on a calendar, with the collision list it names
CalendarCall(op, id, input, result) ==
    [op |-> op, id |-> id, input |-> input, result |-> result]

\* one calendar of the service exists already
FirstCalendar == CalendarCreate("cal_c", "type_c", "rs_game", <<"console">>, <<>>)

InitCalendars ==
    /\ now = Slot(0, 0)
    /\ touching = FALSE
    /\ calendars = [c \in {"cal_c"} |-> CalendarRow(FirstCalendar)]
    /\ google = {}
    /\ db = {}
    /\ mails = {}
    /\ next_id = 1
    /\ proc = [p \in Procs |-> Idle]
    /\ fn = NoFn

CreateCalendar(calendar_create, user) ==
    /\ fn = NoFn
    /\ LET id == calendar_create.id
           Raise(result) ==
               /\ calendars' = calendars
               /\ fn' = CalendarCall("create_calendar", id,
                                     calendar_create.collision_with_calendar, result)
       IN  IF Stored(calendars, id, TRUE)
           THEN Raise("BaseAppException")
           ELSE IF TypeTaken(calendars, calendar_create.reservation_type)
           THEN Raise("BaseAppException")
           ELSE IF calendar_create.reservation_service_id \notin DOMAIN ReservationServices
           THEN Raise("BaseAppException")
           ELSE IF ReservationServices[calendar_create.reservation_service_id].alias
                       \notin user.roles
           THEN Raise("PermissionDeniedException")
           ELSE IF \E mini_service \in Range(calendar_create.mini_services) :
                       mini_service \notin get_names_by_reservation_service_id(
                                               calendar_create.reservation_service_id)
           THEN Raise("BaseAppException")
           ELSE \E outcome \in UpdateCollisions(calendars, id,
                                                 calendar_create.collision_with_calendar) :
                    IF outcome.ok
                    THEN /\ calendars' =
                               [c \in DOMAIN outcome.calendars \cup {id} |->
                                   IF c = id THEN CalendarRow(calendar_create)
                                   ELSE outcome.calendars[c]]
                         /\ fn' = CalendarCall("create_calendar", id,
                                   calendar_create.collision_with_calendar, "created")
                    ELSE /\ calendars' = outcome.calendars
                         /\ fn' = CalendarCall("create_calendar", id,
                                   calendar_create.collision_with_calendar,
                                   "BaseAppException")
    /\ UNCHANGED <<now, touching, google, db, mails, next_id, proc>>

\* a CalendarUpdate that sets collision_with_calendar, or leaves it unset
Unset == <<"unset">>
CalendarUpdates == {Unset, <<>>, <<"cal_a">>}

UpdateCalendar(calendar_id, calendar_update, user) ==
    /\ fn = NoFn
    /\ LET Done(result) ==
               fn' = CalendarCall("update_calendar", calendar_id, calendar_update, result)
       IN  IF ~Stored(calendars, calendar_id, FALSE)
           THEN calendars' = calendars /\ Done("None")
           ELSE IF calendars[calendar_id].reservation_service_id
                       \notin DOMAIN ReservationServices
           THEN calendars' = calendars /\ Done("BaseAppException")
           ELSE IF ReservationServices[calendars[calendar_id].reservation_service_id].alias
                       \notin user.roles
           THEN calendars' = calendars /\ Done("PermissionDeniedException")
           ELSE /\ calendars' =
                       IF calendar_update = Unset THEN calendars
                       ELSE [calendars EXCEPT
                                ![calendar_id].collision_with_calendar = calendar_update]
                /\ Done("updated")
    /\ UNCHANGED <<now, touching, google, db, mails, next_id, proc>>

\* list.remove: the first occurrence goes
RemoveFirst(seq, x) ==
    LET first == CHOOSE i \in DOMAIN seq :
                     seq[i] = x /\ \A j \in 1..(i - 1) : seq[j] # x
    IN  [i \in 1..(Len(seq) - 1) |-> IF i < first THEN seq[i] ELSE seq[i + 1]]

\* reservation_service.calendars: the calendars of the service that are not
\* soft-deleted lose the id from their lists
WithoutCollision(table, id) ==
    [c \in DOMAIN table |->
        IF ~table[c].deleted_at /\ id \in Range(table[c].collision_with_calendar)
        THEN [table[c] EXCEPT !.collision_with_calendar = RemoveFirst(@, id)]
        ELSE table[c]]

DeleteCalendar(calendar_id, user, section_head, hard_remove) ==
    /\ fn = NoFn
    /\ LET Done(result) ==
               fn' = CalendarCall("delete_calendar", calendar_id, <<>>, result)
           cleaned == WithoutCollision(calendars, calendar_id)
       IN  IF ~Stored(calendars, calendar_id, TRUE)
           THEN calendars' = calendars /\ Done("None")
           ELSE IF hard_remove /\ ~section_head
           THEN calendars' = calendars /\ Done("PermissionDeniedException")
           ELSE IF ReservationServices[calendars[calendar_id].reservation_service_id].alias
                       \notin user.roles
           THEN calendars' = calendars /\ Done("PermissionDeniedException")
           ELSE IF hard_remove
           THEN /\ calendars' = [c \in DOMAIN cleaned \ {calendar_id} |-> cleaned[c]]
                /\ Done("removed")
           ELSE IF cleaned[calendar_id].deleted_at
           THEN calendars' = cleaned /\ Done("None")
           ELSE /\ calendars' = [cleaned EXCEPT ![calendar_id].deleted_at = TRUE]
                /\ Done("soft_removed")
    /\ UNCHANGED <<now, touching, google, db, mails, next_id, proc>>

RetrieveRemovedObject(uuid, user) ==
    /\ fn = NoFn
    /\ LET Done(result) ==
               fn' = CalendarCall("retrieve_removed_object", uuid, <<>>, result)
       IN  IF ~Stored(calendars, uuid, TRUE)
           THEN calendars' = calendars /\ Done("AttributeError")
           ELSE IF ~calendars[uuid].deleted_at
           THEN calendars' = calendars /\ Done("BaseAppException")
           ELSE IF ReservationServices[calendars[uuid].reservation_service_id].alias
                       \notin user.roles
           THEN calendars' = calendars /\ Done("PermissionDeniedException")
           ELSE /\ calendars' = [calendars EXCEPT ![uuid].deleted_at = FALSE]
                /\ Done("retrieved")
    /\ UNCHANGED <<now, touching, google, db, mails, next_id, proc>>

\* the call has returned or raised
ReturnCalendar ==
    /\ fn # NoFn
    /\ fn' = NoFn
    /\ UNCHANGED <<now, touching, calendars, google, db, mails, next_id, proc>>

CalendarCallers == {Manager, ActiveMember}

NextCalendars ==
    \/ \E calendar_create \in CalendarCreates, user \in CalendarCallers :
           CreateCalendar(calendar_create, user)
    \/ \E calendar_id \in TableIds, calendar_update \in CalendarUpdates,
          user \in CalendarCallers :
           UpdateCalendar(calendar_id, calendar_update, user)
    \/ \E calendar_id \in TableIds, user \in CalendarCallers,
          section_head \in BOOLEAN, hard_remove \in BOOLEAN :
           DeleteCalendar(calendar_id, user, section_head, hard_remove)
    \/ \E uuid \in TableIds, user \in CalendarCallers : RetrieveRemovedObject(uuid, user)
    \/ ReturnCalendar

SpecCalendars == InitCalendars /\ [][NextCalendars]_vars

\* how often a list holds an id
Occurrences(seq, x) == Cardinality({i \in DOMAIN seq : seq[i] = x})

\* C27: when create_calendar has created calendar A with the collision list
\* S, A is a new row whose list is S, and every calendar B named in S holds
\* A's id exactly once and still holds every id it held before.
C27_CreateRegistersBothWays ==
    [][(fn = NoFn /\ fn'.op = "create_calendar" /\ fn'.result = "created")
       => LET A == fn'.id
              S == fn'.input
          IN  /\ A \notin DOMAIN calendars
              /\ A \in DOMAIN calendars'
              /\ calendars'[A].collision_with_calendar = S
              /\ \A B \in Range(S) :
                     /\ B \in DOMAIN calendars /\ B \in DOMAIN calendars'
                     /\ Occurrences(calendars'[B].collision_with_calendar, A) = 1
                     /\ Range(calendars[B].collision_with_calendar)
                            \subseteq Range(calendars'[B].collision_with_calendar)]_vars

\* a calendar was created in collision with two others, one of which held
\* another id before
C27_Witness ==
    /\ fn.op = "create_calendar" /\ fn.result = "created"
    /\ Cardinality(Range(fn.input)) = MaxCollisions
    /\ calendars[fn.id].collision_with_calendar = fn.input
    /\ \A B \in Range(fn.input) : fn.id \in Range(calendars[B].collision_with_calendar)
    /\ \E B \in Range(fn.input) : Len(calendars[B].collision_with_calendar) > 1

\* C28: every id in the collision list of a calendar that is not deleted is
\* the id of a calendar that is not deleted either and that lists the first
\* calendar in turn.
C28_CollisionsSymmetricNoDangling ==
    \A a \in DOMAIN calendars :
        ~calendars[a].deleted_at
        => \A b \in Range(calendars[a].collision_with_calendar) :
               /\ Stored(calendars, b, FALSE)
               /\ a \in Range(calendars[b].collision_with_calendar)

\* C29: a create_calendar that raises leaves every calendar as it was.
C29_FailedCreateChangesNothing ==
    [][(fn = NoFn /\ fn'.op = "create_calendar" /\ fn'.result \in Raises)
       => calendars' = calendars]_vars

\* the booking holds an instant, on the grid of its start, whose time of day
\* is before StartResTime or after EndResTime
ContainsNightInstant(start_datetime, end_datetime) ==
    \E k \in 0..((end_datetime - start_datetime) \div SlotMinutes) :
        LET instant == TimeOfDay(start_datetime + k * SlotMinutes)
        IN  instant < StartResTime \/ instant > EndResTime

\* C30: for a booking of a member who is not active that holds an instant
\* outside the day window, also one that starts in the day window and ends in
\* the day window of a later day, control_available_reservation_time is
\* false, so that the booking is flagged as night time.
C30_NightInstantIsFlagged ==
    (/\ fn.op = "control_available_reservation_time"
     /\ ~check_night_reservation(fn.user)
     /\ fn.event_input.start_datetime <= fn.event_input.end_datetime
     /\ ContainsNightInstant(fn.event_input.start_datetime, fn.event_input.end_datetime))
    => ~fn.fits

====
